---- MODULE Spec2Model ----
(***************************************************************************)
(* JSON Tree Visualizer (src/src/App.jsx): the recovery parser             *)
(* (parseWithRecovery, trySanitizeText), the graph transformer             *)
(* (traverseToNodes) and the path matcher (parsePathToNormalized,          *)
(* handleSearch), with the React state of the App component.               *)
(*                                                                         *)
(* A JavaScript string is a sequence of one-character strings.             *)
(***************************************************************************)
EXTENDS Integers, Sequences, FiniteSets, TLC

VARIABLES jsonText, error, searchMessage, nodes, edges, idCounter, mounted,
          lastOp, normIn, normOut, sanIn, sanOut

vars == <<jsonText, error, searchMessage, nodes, edges, idCounter, mounted,
          lastOp, normIn, normOut, sanIn, sanOut>>

appVars == <<jsonText, error, searchMessage, nodes, edges, idCounter, mounted, lastOp>>

----------------------------------------------------------------------------
(* Characters and string primitives of the JavaScript runtime.             *)

Q == "\""
BS == "\\"
NL == "\n"

IsWs(c) == c \in {" ", "\n", "\t", "\r"}
IsDigit(c) == c \in {"0", "1", "2", "3", "4", "5", "6", "7", "8", "9"}

\* s[i], or "" past the end of s
At(s, i) == IF i >= 1 /\ i <= Len(s) THEN s[i] ELSE ""

\* String.prototype.slice(from) with a 0-based index from >= 0
Slice(s, from) == SubSeq(s, from + 1, Len(s))

\* String.prototype.startsWith / endsWith
StartsWith(s, p) == Len(p) <= Len(s) /\ SubSeq(s, 1, Len(p)) = p
EndsWith(s, p) == Len(p) <= Len(s) /\ SubSeq(s, Len(s) - Len(p) + 1, Len(s)) = p

RECURSIVE TrimStart(_)
TrimStart(s) == IF s # <<>> /\ IsWs(s[1]) THEN TrimStart(Tail(s)) ELSE s

RECURSIVE TrimEnd(_)
TrimEnd(s) == IF s # <<>> /\ IsWs(s[Len(s)]) THEN TrimEnd(SubSeq(s, 1, Len(s) - 1)) ELSE s

\* String.prototype.trim
Trim(s) == TrimEnd(TrimStart(s))

\* a nullable string: null, or the string s
Null == [isNull |-> TRUE, s |-> <<>>]
Str(s) == [isNull |-> FALSE, s |-> s]

\* JavaScript truthiness of a nullable string: null and "" are falsy
Truthy(v) == ~v.isNull /\ v.s # <<>>

\* const v = ...; body(v): the value v, computed once, handed to body
Let(v, Body(_)) == Body(v)

----------------------------------------------------------------------------
(* parsePathToNormalized                                                   *)

\* p without its first character when that is c: if (p.startsWith(c)) p = p.slice(1)
StripLeading(p, c) == IF StartsWith(p, <<c>>) THEN Slice(p, 1) ELSE p

\* parsePathToNormalized without the trim
parsePathToNormalizedNoTrim(path) ==
  IF ~Truthy(path) THEN Null
  ELSE Str(StripLeading(StripLeading(path.s, "$"), "."))

\* parsePathToNormalized dropping the character after the '$' unconditionally
parsePathToNormalizedAlways(path) ==
  IF ~Truthy(path) THEN Null
  ELSE Str(Slice(StripLeading(Trim(path.s), "$"), 1))

parsePathToNormalized(path) ==
  IF ~Truthy(path) THEN Null
  ELSE Str(StripLeading(StripLeading(Trim(path.s), "$"), "."))

----------------------------------------------------------------------------
(* JSON values, as JSON.parse returns them.  A primitive carries its kind  *)
(* and String(value); an object carries its own keys in Object.keys order. *)

Prim(kind, text) == [type |-> "primitive", prim |-> kind, text |-> text]
Arr(items) == [type |-> "array", items |-> items]
Obj(keys, vals) == [type |-> "object", keys |-> keys, vals |-> vals]

DigitVal(c) == CASE c = "0" -> 0 [] c = "1" -> 1 [] c = "2" -> 2 [] c = "3" -> 3
                 [] c = "4" -> 4 [] c = "5" -> 5 [] c = "6" -> 6 [] c = "7" -> 7
                 [] c = "8" -> 8 [] OTHER -> 9

RECURSIVE NatOf(_)
NatOf(k) == IF k = <<>> THEN 0 ELSE 10 * NatOf(SubSeq(k, 1, Len(k) - 1)) + DigitVal(k[Len(k)])

\* a property key that is a canonical array index ("0", "7", "12"; not "01")
IsIndexKey(k) ==
  /\ k # <<>>
  /\ Len(k) <= 9
  /\ \A i \in 1..Len(k) : IsDigit(k[i])
  /\ (k[1] = "0" => Len(k) = 1)

\* where a new key goes in the own-key order: array indexes first, ascending,
\* then the other keys in insertion order
KeySlot(keys, k) ==
  IF IsIndexKey(k)
  THEN Cardinality({i \in 1..Len(keys) : IsIndexKey(keys[i]) /\ NatOf(keys[i]) < NatOf(k)}) + 1
  ELSE Len(keys) + 1

InsertAt(seq, i, e) == SubSeq(seq, 1, i - 1) \o <<e>> \o SubSeq(seq, i, Len(seq))

\* the smallest and the largest element of a non-empty set of numbers
Min(S) == CHOOSE x \in S : \A y \in S : x <= y
Max(S) == CHOOSE x \in S : \A y \in S : x >= y

\* defining member k: v on an object under construction; a repeated key keeps
\* its place and takes the last value
ObjPut(o, k, v) ==
  Let({i \in 1..Len(o.keys) : o.keys[i] = k}, LAMBDA I :
    IF I # {} THEN Obj(o.keys, [o.vals EXCEPT ![Min(I)] = v])
    ELSE Let(KeySlot(o.keys, k), LAMBDA i :
           Obj(InsertAt(o.keys, i, k), InsertAt(o.vals, i, v))))

----------------------------------------------------------------------------
(* JSON.parse, by recursive descent over the JSON grammar.  Numbers are    *)
(* read without exponent part and \u escapes are not read: the texts of    *)
(* this model contain neither.                                             *)

ParseFail == [ok |-> FALSE, val |-> Prim("null", <<>>), next |-> 0]
ParseOk(v, n) == [ok |-> TRUE, val |-> v, next |-> n]

RECURSIVE SkipWs(_, _)
SkipWs(s, i) == IF IsWs(At(s, i)) THEN SkipWs(s, i + 1) ELSE i

Unescape(c) == CASE c = Q -> Q [] c = BS -> BS [] c = "/" -> "/"
                 [] c = "n" -> "\n" [] c = "t" -> "\t" [] c = "r" -> "\r"
                 [] OTHER -> ""

\* the characters of a string literal from position j (after the opening quote)
RECURSIVE ScanString(_, _, _)
ScanString(s, j, acc) ==
  Let(At(s, j), LAMBDA c :
    IF c = "" \/ c \in {"\n", "\t", "\r"} THEN ParseFail
    ELSE IF c = Q THEN ParseOk(acc, j + 1)
    ELSE IF c = BS
         THEN Let(Unescape(At(s, j + 1)), LAMBDA u :
                IF u = "" THEN ParseFail ELSE ScanString(s, j + 2, Append(acc, u)))
    ELSE ScanString(s, j + 1, Append(acc, c)))

RECURSIVE SkipDigits(_, _)
SkipDigits(s, i) == IF IsDigit(At(s, i)) THEN SkipDigits(s, i + 1) ELSE i

RECURSIVE StripZeros(_)
StripZeros(d) == IF d # <<>> /\ d[Len(d)] = "0" THEN StripZeros(SubSeq(d, 1, Len(d) - 1)) ELSE d

\* String(n) of the number written sign, integer digits, fraction digits
NumToString(neg, int, frac) ==
  Let(StripZeros(frac), LAMBDA f :
    (IF neg /\ ~(NatOf(int) = 0 /\ f = <<>>) THEN <<"-">> ELSE <<>>) \o int
      \o (IF f = <<>> THEN <<>> ELSE <<".">> \o f))

\* the number at position i: sign, integer part a..b-1, fraction b+1..c-1
ParseNumber(s, i) ==
  Let(IF At(s, i) = "-" THEN i + 1 ELSE i, LAMBDA a :
  Let(IF At(s, a) = "0" THEN a + 1 ELSE SkipDigits(s, a), LAMBDA b :
  Let(IF At(s, b) = "." THEN SkipDigits(s, b + 1) ELSE b, LAMBDA c :
    IF b = a \/ (At(s, b) = "." /\ c = b + 1) THEN ParseFail
    ELSE ParseOk(Prim("number", NumToString(a > i, SubSeq(s, a, b - 1),
                                            IF c > b THEN SubSeq(s, b + 1, c - 1) ELSE <<>>)), c))))

ParseLiteral(s, i) ==
  IF i + 3 <= Len(s) /\ SubSeq(s, i, i + 3) = <<"t", "r", "u", "e">>
  THEN ParseOk(Prim("boolean", <<"t", "r", "u", "e">>), i + 4)
  ELSE IF i + 4 <= Len(s) /\ SubSeq(s, i, i + 4) = <<"f", "a", "l", "s", "e">>
  THEN ParseOk(Prim("boolean", <<"f", "a", "l", "s", "e">>), i + 5)
  ELSE IF i + 3 <= Len(s) /\ SubSeq(s, i, i + 3) = <<"n", "u", "l", "l">>
  THEN ParseOk(Prim("null", <<"n", "u", "l", "l">>), i + 4)
  ELSE ParseFail

ParseString(s, i) ==
  Let(ScanString(s, i + 1, <<>>), LAMBDA r :
    IF r.ok THEN ParseOk(Prim("string", r.val), r.next) ELSE ParseFail)

RECURSIVE ParseValue(_, _), ParseElems(_, _, _), ParseMembers(_, _, _)

\* the value that starts at position i (white space already skipped)
ParseValue(s, i) ==
  Let(At(s, i), LAMBDA c :
    IF c = "[" THEN
      Let(SkipWs(s, i + 1), LAMBDA j :
        IF At(s, j) = "]" THEN ParseOk(Arr(<<>>), j + 1) ELSE ParseElems(s, j, <<>>))
    ELSE IF c = "{" THEN
      Let(SkipWs(s, i + 1), LAMBDA j :
        IF At(s, j) = "}" THEN ParseOk(Obj(<<>>, <<>>), j + 1)
        ELSE ParseMembers(s, j, Obj(<<>>, <<>>)))
    ELSE IF c = Q THEN ParseString(s, i)
    ELSE IF c = "-" \/ IsDigit(c) THEN ParseNumber(s, i)
    ELSE ParseLiteral(s, i))

\* the elements of an array from position j, acc holding those before
ParseElems(s, j, acc) ==
  Let(ParseValue(s, j), LAMBDA r :
    IF ~r.ok THEN ParseFail
    ELSE Let(SkipWs(s, r.next), LAMBDA k :
           IF At(s, k) = "," THEN ParseElems(s, SkipWs(s, k + 1), Append(acc, r.val))
           ELSE IF At(s, k) = "]" THEN ParseOk(Arr(Append(acc, r.val)), k + 1)
           ELSE ParseFail))

\* the members of an object from position j, o holding those before
ParseMembers(s, j, o) ==
  IF At(s, j) # Q THEN ParseFail
  ELSE Let(ScanString(s, j + 1, <<>>), LAMBDA key :
    IF ~key.ok THEN ParseFail
    ELSE Let(SkipWs(s, key.next), LAMBDA k :
      IF At(s, k) # ":" THEN ParseFail
      ELSE Let(ParseValue(s, SkipWs(s, k + 1)), LAMBDA r :
        IF ~r.ok THEN ParseFail
        ELSE Let(SkipWs(s, r.next), LAMBDA m :
          IF At(s, m) = ","
          THEN ParseMembers(s, SkipWs(s, m + 1), ObjPut(o, key.val, r.val))
          ELSE IF At(s, m) = "}" THEN ParseOk(ObjPut(o, key.val, r.val), m + 1)
          ELSE ParseFail))))

\* the SyntaxError that JSON.parse(text) throws
SyntaxError(text) == [name |-> "SyntaxError", input |-> text]
NoError == [name |-> "none", input |-> <<>>]

\* JSON.parse(text): the value, or the error thrown
JSONParse(text) ==
  Let(ParseValue(text, SkipWs(text, 1)), LAMBDA r :
    IF r.ok /\ SkipWs(text, r.next) = Len(text) + 1
    THEN [ok |-> TRUE, val |-> r.val, err |-> NoError]
    ELSE [ok |-> FALSE, val |-> Prim("null", <<>>), err |-> SyntaxError(text)])

----------------------------------------------------------------------------
(* trySanitizeText: the regular expressions, each by the language it       *)
(* matches, and the rewrite of every bracketed span of bare pairs.         *)

\* /\[\s*"(?:[^"\\]|\\.)*"\s*:/ : the end of the string body that starts at j
RECURSIVE ReBodyEnd(_, _)
ReBodyEnd(s, j) ==
  Let(At(s, j), LAMBDA c :
    IF c = BS THEN IF At(s, j + 1) \in {"", "\n", "\r"} THEN j ELSE ReBodyEnd(s, j + 2)
    ELSE IF c = "" \/ c = Q THEN j
    ELSE ReBodyEnd(s, j + 1))

\* the pattern /\[\s*"(?:[^"\\]|\\.)*"\s*:/ matches at position i
BracketKeyAt(text, i) ==
  /\ text[i] = "["
  /\ Let(SkipWs(text, i + 1), LAMBDA j :
       /\ At(text, j) = Q
       /\ Let(ReBodyEnd(text, j + 1), LAMBDA k :
            /\ At(text, k) = Q
            /\ At(text, SkipWs(text, k + 1)) = ":"))

\* /\[\s*"(?:[^"\\]|\\.)*"\s*:/m.test(text)
HasBracketKey(text) == \E i \in 1..Len(text) : BracketKeyAt(text, i)

\* The group of the replace pattern,
\*   [^\[\]]*?"[^"\[\]]*?"\s*:\s*[^,\[\]]+(?:\s*,\s*"[^"\[\]]*?"\s*:\s*[^,\[\]]+)*
\* as an automaton over bracket-free text: the states reached from state q on c
ReStep(q, c) ==
  CASE q = 0 -> {0} \cup (IF c = Q THEN {1} ELSE {})
    [] q = 1 -> IF c = Q THEN {2} ELSE {1}
    [] q = 2 -> (IF IsWs(c) THEN {2} ELSE {}) \cup (IF c = ":" THEN {3} ELSE {})
    [] q = 3 -> (IF IsWs(c) THEN {3} ELSE {}) \cup (IF c # "," THEN {4} ELSE {})
    [] q = 4 -> IF c = "," THEN {5} ELSE {4}
    [] q = 5 -> (IF IsWs(c) THEN {5} ELSE {}) \cup (IF c = Q THEN {6} ELSE {})
    [] q = 6 -> IF c = Q THEN {7} ELSE {6}
    [] q = 7 -> (IF IsWs(c) THEN {7} ELSE {}) \cup (IF c = ":" THEN {8} ELSE {})
    [] OTHER -> (IF IsWs(c) THEN {8} ELSE {}) \cup (IF c # "," THEN {4} ELSE {})

RECURSIVE ReRun(_, _)
ReRun(S, s) ==
  IF s = <<>> THEN S
  ELSE ReRun(UNION {ReStep(q, s[1]) : q \in S}, Tail(s))

\* inner is matched by the group of the replace pattern
IsPairRun(inner) == 4 \in ReRun({0}, inner)

\* the smallest element of a set of positions, or 0
First(B) == IF B = {} THEN 0 ELSE Min(B)

\* the first '[' or ']' after position i, or 0
NextBracket(s, i) == First({j \in (i + 1)..Len(s) : s[j] \in {"[", "]"}})

\* the replace pattern matches at position i: the end of the match, or 0
SpanEnd(s, i) ==
  IF s[i] # "[" THEN 0
  ELSE Let(NextBracket(s, i), LAMBDA j :
         IF j # 0 /\ s[j] = "]" /\ IsPairRun(SubSeq(s, i + 1, j - 1)) THEN j ELSE 0)

CountQuotes(s) == Cardinality({i \in 1..Len(s) : s[i] = Q})

\* the k-th smallest element of a set of numbers
Nth(S, k) == CHOOSE x \in S : Cardinality({y \in S : y < x}) = k - 1

\* the pieces of s between the positions C
Pieces(s, C) ==
  [k \in 1..(Cardinality(C) + 1) |->
     SubSeq(s, IF k = 1 THEN 1 ELSE Nth(C, k - 1) + 1,
               IF k = Cardinality(C) + 1 THEN Len(s) ELSE Nth(C, k) - 1)]

\* inner.split(/,(?=(?:[^"]*"[^"]*")*[^"]*$)/): the commas followed by an even
\* number of quotes split
Split(s) ==
  Pieces(s, {i \in 1..Len(s) : s[i] = "," /\ CountQuotes(SubSeq(s, i + 1, Len(s))) % 2 = 0})

TrimAll(raw) == [i \in 1..Len(raw) |-> Trim(raw[i])]

\* .map(p => p.trim()).filter(Boolean)
Parts(inner) == SelectSeq(TrimAll(Split(inner)), LAMBDA p : p # <<>>)

\* the first position >= i of character c in s, or 0
IndexFrom(s, c, i) == First({j \in i..Len(s) : s[j] = c})

\* p.match(/^\s*"([^"]+)"\s*:\s*(.+)\s*$/s): groups 1 and 2, or no match; the
\* key is p[a+1..b-1], the colon is at c and the value starts at d
KeyVal(p) ==
  Let(SkipWs(p, 1), LAMBDA a :
  Let(IndexFrom(p, Q, a + 1), LAMBDA b :
  Let(SkipWs(p, b + 1), LAMBDA c :
  Let(SkipWs(p, c + 1), LAMBDA d :
    IF At(p, a) = Q /\ b > a + 1 /\ At(p, c) = ":" /\ c < Len(p)
    THEN [ok |-> TRUE, key |-> SubSeq(p, a + 1, b - 1),
          val |-> IF d <= Len(p) THEN SubSeq(p, d, Len(p)) ELSE <<p[Len(p)]>>]
    ELSE [ok |-> FALSE, key |-> <<>>, val |-> <<>>]))))

\* /^".*"$/.test(val)
IsQuoted(val) ==
  /\ Len(val) >= 2
  /\ val[1] = Q
  /\ val[Len(val)] = Q
  /\ \A i \in 2..(Len(val) - 1) : val[i] \notin {"\n", "\r"}

Lower(c) == CASE c = "T" -> "t" [] c = "R" -> "r" [] c = "U" -> "u" [] c = "E" -> "e"
              [] c = "F" -> "f" [] c = "A" -> "a" [] c = "L" -> "l" [] c = "S" -> "s"
              [] c = "N" -> "n" [] OTHER -> c

\* /^-?\d+(\.\d+)?$/.test(val)
IsNumeral(val) ==
  Let(IF At(val, 1) = "-" THEN 2 ELSE 1, LAMBDA a :
  Let(SkipDigits(val, a), LAMBDA b :
  Let(IF At(val, b) = "." THEN SkipDigits(val, b + 1) ELSE b, LAMBDA c :
    b > a /\ (At(val, b) = "." => c > b + 1) /\ c = Len(val) + 1)))

\* /^(?:-?\d+(\.\d+)?|true|false|null)$/i.test(val)
IsLiteral(val) ==
  \/ [i \in 1..Len(val) |-> Lower(val[i])]
       \in {<<"t", "r", "u", "e">>, <<"f", "a", "l", "s", "e">>, <<"n", "u", "l", "l">>}
  \/ IsNumeral(val)

EscapeChar(c) == CASE c = Q -> <<BS, Q>> [] c = BS -> <<BS, BS>>
                   [] c = "\n" -> <<BS, "n">> [] c = "\t" -> <<BS, "t">>
                   [] c = "\r" -> <<BS, "r">> [] OTHER -> <<c>>

RECURSIVE EscapeAll(_)
EscapeAll(s) == IF s = <<>> THEN <<>> ELSE EscapeChar(s[1]) \o EscapeAll(Tail(s))

\* JSON.stringify of a string
JSONStringify(s) == <<Q>> \o EscapeAll(s) \o <<Q>>

\* the value of a part: left as it is when it is quoted, a literal, or starts
\* with a brace or bracket, and made a JSON string otherwise
FixValue(val) ==
  IF ~IsQuoted(val) /\ ~IsLiteral(val) /\ At(val, 1) \notin {"{", "["}
  THEN JSONStringify(val) ELSE val

\* PartObject leaving every value as written
PartObjectRaw(p) ==
  Let(KeyVal(p), LAMBDA m :
    <<"{">> \o JSONStringify(m.key) \o <<":">> \o Trim(m.val) \o <<"}">>)

\* the text that one "key": value part becomes
PartObject(p) ==
  Let(KeyVal(p), LAMBDA m :
    <<"{">> \o JSONStringify(m.key) \o <<":">> \o FixValue(Trim(m.val)) \o <<"}">>)

RECURSIVE Join(_)
Join(strs) ==
  IF strs = <<>> THEN <<>>
  ELSE IF Len(strs) = 1 THEN strs[1]
  ELSE strs[1] \o <<",">> \o Join(Tail(strs))

\* the replacement callback of trySanitizeText, on a matched span [inner]
RewriteSpan(inner) ==
  Let(Parts(inner), LAMBDA parts :
    IF \E i \in 1..Len(parts) : ~KeyVal(parts[i]).ok
    THEN <<"[">> \o inner \o <<"]">>
    ELSE <<"[">> \o Join([i \in 1..Len(parts) |-> PartObject(parts[i])]) \o <<"]">>)

\* text.replace(pattern, callback) with the g flag, from position i on: the
\* matches cannot overlap, so every position where the pattern matches is one
RECURSIVE ReplaceFrom(_, _)
ReplaceFrom(s, i) ==
  Let(First({m \in i..Len(s) : SpanEnd(s, m) # 0}), LAMBDA m :
    IF m = 0 THEN SubSeq(s, i, Len(s))
    ELSE Let(SpanEnd(s, m), LAMBDA j :
           SubSeq(s, i, m - 1) \o RewriteSpan(SubSeq(s, m + 1, j - 1)) \o ReplaceFrom(s, j + 1)))

trySanitizeText(text) ==
  IF ~HasBracketKey(text) THEN text ELSE ReplaceFrom(text, 1)

----------------------------------------------------------------------------
(* The graph transformer.                                                  *)

\* getNodeStyle(type, highlighted): the fields that depend on the arguments
getNodeStyle(type, highlighted) ==
  [border |-> IF highlighted THEN "2px solid #ff9800" ELSE "1px solid rgba(0,0,0,0.08)",
   background |-> IF type = "object" THEN "#6c5ce7"
                  ELSE IF type = "array" THEN "#00b894" ELSE "#fdcb6e",
   color |-> IF type \in {"object", "array"} THEN "white" ELSE "#333"]

DigitChar(d) == CASE d = 0 -> "0" [] d = 1 -> "1" [] d = 2 -> "2" [] d = 3 -> "3"
                  [] d = 4 -> "4" [] d = 5 -> "5" [] d = 6 -> "6" [] d = 7 -> "7"
                  [] d = 8 -> "8" [] OTHER -> "9"

\* String(n) of a natural number n
RECURSIVE NatToString(_)
NatToString(n) == IF n < 10 THEN <<DigitChar(n)>> ELSE NatToString(n \div 10) \o <<DigitChar(n % 10)>>

\* `n_${idCounter++}`: the id made from counter value c
genId(c) == Str(<<"n", "_">> \o NatToString(c))

\* path.split('.').slice(-1)[0]
LastSegment(path) ==
  Let({i \in 1..Len(path) : path[i] = "."}, LAMBDA D :
    IF D = {} THEN path ELSE SubSeq(path, Max(D) + 1, Len(path)))

TypeOf(json) == json.type

\* the children of a value in the order the loops visit them, each with the
\* suffix its path gets
ChildCount(json) ==
  IF json.type = "object" THEN Len(json.keys)
  ELSE IF json.type = "array" THEN Len(json.items) ELSE 0

ChildValue(json, i) == IF json.type = "object" THEN json.vals[i] ELSE json.items[i]

ChildPath(json, path, i) ==
  IF json.type = "object" THEN path \o <<".">> \o json.keys[i]
  ELSE path \o <<"[">> \o NatToString(i - 1) \o <<"]">>

\* nodes.push({...}) unless the value is the root
PushNode(ns, isRoot, node) == IF isRoot THEN ns ELSE Append(ns, node)

\* edges.push({...}) for a value that is not the root and has a parent id
PushEdge(es, isRoot, parentId, nodeId) ==
  IF ~isRoot /\ Truthy(parentId)
  THEN Append(es, [id |-> <<"e", "_">> \o parentId.s \o <<"_">> \o nodeId.s,
                   source |-> parentId.s, target |-> nodeId.s])
  ELSE es

\* ChildParent handing its own parentId on
ChildParentStale(isRoot, parentId, nodeId) == parentId

\* the parentId handed to the children
ChildParent(isRoot, parentId, nodeId) == IF isRoot THEN parentId ELSE nodeId

\* ChildDepth adding a level below the root as well
ChildDepthAlways(isRoot, depth) == depth + 1

\* the depth handed to the children
ChildDepth(isRoot, depth) == IF isRoot THEN depth ELSE depth + 1

\* the label of a value at a path
Label(json, path) ==
  IF json.type \in {"object", "array"} THEN LastSegment(path)
  ELSE LastSegment(path) \o <<":", " ">> \o json.text

\* the node of a value
Node(nodeId, json, path, depth, x, y) ==
  [id |-> nodeId.s,
   data |-> [label |-> Label(json, path), path |-> path, value |-> json, type |-> TypeOf(json)],
   position |-> [x |-> x + depth * 220, y |-> y],
   style |-> getNodeStyle(TypeOf(json), FALSE)]

RECURSIVE Visit(_, _, _, _, _, _, _, _, _), TraverseChildren(_, _, _, _, _, _, _, _)

\* traverseToNodes(json, path, depth, x, y, nodes, edges, parentId); g holds
\* the nodes and edges pushed so far and the value of idCounter
traverseToNodes(json, path, depth, x, y, g, parentId) ==
  Visit(json, path, depth, x, y, g, parentId, genId(g.idCounter), path = <<"$">>)

\* the body of traverseToNodes, nodeId and isRoot computed
Visit(json, path, depth, x, y, g, parentId, nodeId, isRoot) ==
  TraverseChildren(json, 1, path, ChildDepth(isRoot, depth), x, y,
                   [idCounter |-> g.idCounter + 1,
                    nodes |-> PushNode(g.nodes, isRoot, Node(nodeId, json, path, depth, x, y)),
                    edges |-> PushEdge(g.edges, isRoot, parentId, nodeId)],
                   ChildParent(isRoot, parentId, nodeId))

\* the loop over the children of json, from the i-th child on, at childY
TraverseChildren(json, i, path, depth, x, childY, g, parentId) ==
  IF i > ChildCount(json) THEN g
  ELSE TraverseChildren(json, i + 1, path, depth, x, childY + 120,
                        traverseToNodes(ChildValue(json, i), ChildPath(json, path, i),
                                        depth, x, childY, g, parentId),
                        parentId)

----------------------------------------------------------------------------
(* parseWithRecovery                                                       *)

Parsed(val, sanitized, sanitizedText) ==
  [ok |-> TRUE, parsed |-> val, sanitized |-> sanitized, sanitizedText |-> sanitizedText,
   err |-> NoError]
Thrown(err) ==
  [ok |-> FALSE, parsed |-> Prim("null", <<>>), sanitized |-> FALSE, sanitizedText |-> <<>>,
   err |-> err]

\* the inner try of parseWithRecovery throwing the error of the second parse
SecondParseErr2(text, err, candidate) ==
  IF candidate = text THEN Thrown(err)
  ELSE Let(JSONParse(candidate), LAMBDA second :
         IF second.ok THEN Parsed(second.val, TRUE, candidate) ELSE Thrown(second.err))

\* the inner try of parseWithRecovery: the candidate is parsed, err is rethrown
SecondParse(text, err, candidate) ==
  IF candidate = text THEN Thrown(err)
  ELSE Let(JSONParse(candidate), LAMBDA second :
         IF second.ok THEN Parsed(second.val, TRUE, candidate) ELSE Thrown(err))

parseWithRecovery(text) ==
  Let(JSONParse(text), LAMBDA strict :
    IF strict.ok THEN Parsed(strict.val, FALSE, <<>>)
    ELSE SecondParse(text, strict.err, trySanitizeText(text)))

----------------------------------------------------------------------------
(* The texts typed into the editor.                                        *)

\* the initial text of the editor
SAMPLE_JSON ==
  <<"{", "\n", " ", " ", "\"", "u", "s", "e", "r", "\"", ":", " ", "{",
    "\n", " ", " ", " ", " ", "\"", "i", "d", "\"", ":", " ", "1", ",",
    "\n", " ", " ", " ", " ", "\"", "n", "a", "m", "e", "\"", ":", " ",
    "\"", "J", "o", "h", "n", " ", "D", "o", "e", "\"", ",", "\n", " ",
    " ", " ", " ", "\"", "a", "d", "d", "r", "e", "s", "s", "\"", ":", " ",
    "{", "\n", " ", " ", " ", " ", " ", " ", "\"", "c", "i", "t", "y",
    "\"", ":", " ", "\"", "N", "e", "w", " ", "Y", "o", "r", "k", "\"",
    ",", "\n", " ", " ", " ", " ", " ", " ", "\"", "c", "o", "u", "n", "t",
    "r", "y", "\"", ":", " ", "\"", "U", "S", "A", "\"", "\n", " ", " ",
    " ", " ", "}", "\n", " ", " ", "}", ",", "\n", " ", " ", "\"", "i",
    "t", "e", "m", "s", "\"", ":", " ", "[", "\n", " ", " ", " ", " ",
    "\"", "n", "a", "m", "e", "\"", ":", " ", "\"", "i", "t", "e", "m",
    "1", "\"", ",", "\n", " ", " ", " ", " ", "\"", "n", "a", "m", "e",
    "\"", ":", " ", "\"", "i", "t", "e", "m", "2", "\"", "\n", " ", " ",
    "]", "\n", "}">>

\* the example of a nested object
TextCity ==
  <<"{", "\"", "u", "s", "e", "r", "\"", ":", "{", "\"", "a", "d", "d",
    "r", "e", "s", "s", "\"", ":", "{", "\"", "c", "i", "t", "y", "\"",
    ":", "\"", "X", "\"", "}", "}", "}">>

\* a key holding a dot next to a nested key
TextDotKey ==
  <<"{", "\"", "a", ".", "b", "\"", ":", "1", ",", "\"", "a", "\"", ":",
    "{", "\"", "b", "\"", ":", "2", "}", "}">>

\* an array of primitives
TextArray ==
  <<"[", "1", ",", " ", "2", "]">>

\* a nested object
TextNested ==
  <<"{", "\"", "a", "\"", ":", " ", "{", "\"", "b", "\"", ":", " ", "1",
    "}", "}">>

\* the same key at several depths
TextShadow ==
  <<"{", "\"", "a", "\"", ":", "{", "\"", "b", "\"", ":", "1", "}", ",",
    "\"", "b", "\"", ":", "[", "2", ",", "{", "\"", "b", "\"", ":", "3",
    "}", "]", "}">>

\* index-like and repeated keys
TextIndexKeys ==
  <<"{", "\"", "b", "\"", ":", "1", ",", "\"", "1", "\"", ":", "[", "]",
    ",", "\"", "0", "\"", ":", "{", "}", ",", "\"", "b", "\"", ":", "n",
    "u", "l", "l", "}">>

\* a primitive root
TextPrimitive ==
  <<"7">>

\* valid text with brackets inside strings
TextQuotedBrackets ==
  <<"{", "\"", "a", "\"", ":", "\"", "[", "\"", ",", "\"", ":", "\"", ":",
    "\"", "]", "\"", "}">>

\* bare pairs in an array: repaired
TextBarePairs ==
  <<"[", "\"", "n", "a", "m", "e", "\"", ":", " ", "\"", "i", "t", "e",
    "m", "1", "\"", ",", " ", "\"", "n", "a", "m", "e", "\"", ":", " ",
    "\"", "i", "t", "e", "m", "2", "\"", "]">>

\* bare pairs, and a missing brace: repaired text still invalid
TextBareUnclosed ==
  <<"{", "\"", "x", "\"", ":", " ", "[", "\"", "a", "\"", ":", " ", "1", "]">>

\* invalid, nothing to repair
TextTrailingComma ==
  <<"{", "\"", "a", "\"", ":", " ", "1", ",", "}">>

\* the empty text
TextEmpty == <<>>

Texts ==
  {SAMPLE_JSON, TextCity, TextDotKey, TextArray, TextNested, TextShadow,
   TextIndexKeys, TextPrimitive, TextQuotedBrackets, TextBarePairs, TextBareUnclosed, TextTrailingComma, TextEmpty}

----------------------------------------------------------------------------
(* The queries typed into the search box.                                  *)

QueryCity ==
  <<"u", "s", "e", "r", ".", "a", "d", "d", "r", "e", "s", "s", ".", "c",
    "i", "t", "y">>

QueryMissing ==
  <<"n", "o", "n", "e", "x", "i", "s", "t", "e", "n", "t">>

QueryB ==
  <<"b">>

QueryDollarAB ==
  <<"$", ".", "a", ".", "b">>

QueryDotB ==
  <<" ", ".", "b", " ">>

QueryIndex ==
  <<"[", "0", "]">>

QueryDollar ==
  <<"$">>

QueryBlank ==
  <<" ", " ">>

QueryEmpty == <<>>

QueryItemName ==
  <<"i", "t", "e", "m", "s", "[", "0", "]", ".", "n", "a", "m", "e">>

QueryA ==
  <<"$", ".", "a">>

Queries ==
  {QueryCity, QueryMissing, QueryB, QueryDollarAB, QueryDotB, QueryIndex,
   QueryDollar, QueryBlank, QueryEmpty, QueryItemName, QueryA}

----------------------------------------------------------------------------
(* The App component: its state, and its handlers as actions.              *)

NoMessage == [msg |-> "", cause |-> NoError]
SanitizedMessage == [msg |-> "Input was auto-sanitized (heuristic).", cause |-> NoError]
\* `Invalid JSON: ${e.message}`
InvalidMessage(e) == [msg |-> "Invalid JSON: ", cause |-> e]

Op(name, input, ok) == [op |-> name, input |-> input, ok |-> ok]

\* BuildGraph going on from the value idCounter was left with
BuildGraphNoReset(parsed) ==
  traverseToNodes(parsed, <<"$">>, 0, 0, 0, [idCounter |-> idCounter, nodes |-> <<>>, edges |-> <<>>], Null)

\* traverseToNodes(parsed), with idCounter = 1
BuildGraph(parsed) ==
  traverseToNodes(parsed, <<"$">>, 0, 0, 0, [idCounter |-> 1, nodes |-> <<>>, edges |-> <<>>], Null)

\* the try block of handleGenerate after a successful parse r; g is the graph
\* traverseToNodes returns
StoreGraph(r, g) ==
  /\ nodes' = g.nodes
  /\ edges' = g.edges
  /\ idCounter' = g.idCounter
  /\ error' = IF r.sanitized THEN SanitizedMessage ELSE NoMessage
  /\ jsonText' = IF r.sanitized THEN r.sanitizedText ELSE jsonText
  /\ lastOp' = Op("generate", jsonText, TRUE)
  /\ UNCHANGED searchMessage

\* the catch block of handleGenerate clearing the graph
ShowErrorClearing(e) ==
  /\ error' = InvalidMessage(e)
  /\ idCounter' = 1
  /\ nodes' = <<>>
  /\ edges' = <<>>
  /\ lastOp' = Op("generate", jsonText, FALSE)
  /\ UNCHANGED <<jsonText, searchMessage>>

\* the catch block of handleGenerate
ShowError(e) ==
  /\ error' = InvalidMessage(e)
  /\ idCounter' = 1
  /\ lastOp' = Op("generate", jsonText, FALSE)
  /\ UNCHANGED <<jsonText, nodes, edges, searchMessage>>

\* handleGenerate, r being what parseWithRecovery(jsonText) returns or throws
GenerateFrom(r) == IF r.ok THEN StoreGraph(r, BuildGraph(r.parsed)) ELSE ShowError(r.err)

handleGenerate == GenerateFrom(parseWithRecovery(jsonText))

\* the condition of nodes.find
Matches(n, normalized) ==
  \/ EndsWith(n.data.path, normalized)
  \/ n.data.path = <<"$", ".">> \o normalized

\* the last element of a set of positions, or 0
Last(B) == IF B = {} THEN 0 ELSE Max(B)

\* FindMatch returning the last node that satisfies the condition
FindMatchLast(ns, normalized) == Last({i \in 1..Len(ns) : Matches(ns[i], normalized)})

\* nodes.find(n => n.data.path.endsWith(normalized) || n.data.path === '$.' + normalized):
\* the index of the node found, or 0
FindMatch(ns, normalized) == First({i \in 1..Len(ns) : Matches(ns[i], normalized)})

\* Highlight keeping the matched node only
HighlightOnly(ns, matchId) ==
  SelectSeq([i \in 1..Len(ns) |-> [ns[i] EXCEPT !.style = getNodeStyle(ns[i].data.type, ns[i].id = matchId)]],
            LAMBDA n : n.id = matchId)

\* Highlight leaving the style of the other nodes as it is
HighlightKeep(ns, matchId) ==
  [i \in 1..Len(ns) |-> IF ns[i].id = matchId
                        THEN [ns[i] EXCEPT !.style = getNodeStyle(ns[i].data.type, TRUE)]
                        ELSE ns[i]]

\* nodes.map(n => ({ ...n, style: getNodeStyle(n.data.type, n.id === match.id) }))
Highlight(ns, matchId) ==
  [i \in 1..Len(ns) |-> [ns[i] EXCEPT !.style = getNodeStyle(ns[i].data.type, ns[i].id = matchId)]]

\* handleSearch after the two early returns; m is the index of the match, or 0
SearchFrom(query, m) ==
  IF m # 0
  THEN /\ nodes' = Highlight(nodes, nodes[m].id)
       /\ searchMessage' = "Match found"
       /\ lastOp' = Op("search", query, TRUE)
  ELSE /\ searchMessage' = "No match found"
       /\ lastOp' = Op("search", query, FALSE)
       /\ UNCHANGED nodes

\* handleSearch, normalized being parsePathToNormalized(query)
SearchWith(query, normalized) ==
  IF query = <<>> \/ ~Truthy(normalized)
  THEN /\ lastOp' = Op("search", query, FALSE)
       /\ UNCHANGED <<nodes, searchMessage>>
  ELSE SearchFrom(query, FindMatch(nodes, normalized.s))

handleSearch(query) == SearchWith(query, parsePathToNormalized(Str(query)))

\* the state of the component before its first render
AppInit ==
  /\ jsonText = SAMPLE_JSON
  /\ error = NoMessage
  /\ searchMessage = ""
  /\ nodes = <<>>
  /\ edges = <<>>
  /\ idCounter = 1
  /\ mounted = FALSE
  /\ lastOp = Op("init", <<>>, TRUE)

Init ==
  /\ AppInit
  /\ normIn = Null
  /\ normOut = <<>>
  /\ sanIn = [text |-> <<>>, pairs |-> <<>>]
  /\ sanOut = [done |-> FALSE, text |-> <<>>]

\* useEffect(() => { handleGenerate() }, []): the first render generates
Mount ==
  /\ ~mounted
  /\ mounted' = TRUE
  /\ handleGenerate
  /\ UNCHANGED <<normIn, normOut, sanIn, sanOut>>

\* the Generate Tree button
Generate ==
  /\ mounted
  /\ handleGenerate
  /\ UNCHANGED <<mounted, normIn, normOut, sanIn, sanOut>>

\* typing in the editor: onChange={(e) => setJsonText(e.target.value)}
Edit(text) ==
  /\ mounted
  /\ jsonText' = text
  /\ lastOp' = Op("edit", text, TRUE)
  /\ UNCHANGED <<error, searchMessage, nodes, edges, idCounter, mounted,
                 normIn, normOut, sanIn, sanOut>>

\* the Search button: handleSearch(searchInputRef.current.value)
Search(query) ==
  /\ mounted
  /\ handleSearch(query)
  /\ UNCHANGED <<jsonText, error, edges, idCounter, mounted, normIn, normOut, sanIn, sanOut>>

Next ==
  \/ Mount
  \/ Generate
  \/ \E text \in Texts : Edit(text)
  \/ \E query \in Queries : Search(query)

Spec == Init /\ [][Next]_vars

----------------------------------------------------------------------------
(* parsePathToNormalized on its own: every query of up to MaxQueryLen      *)
(* characters, normalized, and the result normalized again.                *)

MaxQueryLen == 3
QueryChars == {" ", "$", ".", "a"}

QueryStrings == UNION {[1..n -> QueryChars] : n \in 0..MaxQueryLen}

InitNorm ==
  /\ AppInit
  /\ normIn \in {Null} \cup {Str(q) : q \in QueryStrings}
  /\ normOut = <<>>
  /\ sanIn = [text |-> <<>>, pairs |-> <<>>]
  /\ sanOut = [done |-> FALSE, text |-> <<>>]

\* normOut[1] = parsePathToNormalized(normIn), normOut[2] = parsePathToNormalized(normOut[1])
Normalize ==
  /\ Len(normOut) < 2
  /\ normOut' = Append(normOut, parsePathToNormalized(IF normOut = <<>> THEN normIn
                                                      ELSE normOut[Len(normOut)]))
  /\ UNCHANGED <<appVars, normIn, sanIn, sanOut>>

NextNorm == Normalize

SpecNorm == InitNorm /\ [][NextNorm]_vars

----------------------------------------------------------------------------
(* trySanitizeText on its own: every bracketed span of up to MaxPairs bare *)
(* "key": value pairs.                                                     *)

MaxPairs == 2

PairKeys == {<<"n", "a", "m", "e">>, <<"a">>}

\* the values of the pairs as written, each with the JSON value it stands for
PairVals ==
  {[raw |-> <<Q, "i", "t", "e", "m", "1", Q>>, json |-> Prim("string", <<"i", "t", "e", "m", "1">>)],
   [raw |-> <<Q, "i", "t", "e", "m", "2", Q>>, json |-> Prim("string", <<"i", "t", "e", "m", "2">>)],
   [raw |-> <<Q, "p", ",", "q", Q>>, json |-> Prim("string", <<"p", ",", "q">>)],
   [raw |-> <<"1", "2">>, json |-> Prim("number", <<"1", "2">>)],
   [raw |-> <<"t", "r", "u", "e">>, json |-> Prim("boolean", <<"t", "r", "u", "e">>)],
   [raw |-> <<"x", " ", "y">>, json |-> Prim("string", <<"x", " ", "y">>)]}

Pairs == {[key |-> k, val |-> v] : k \in PairKeys, v \in PairVals}

PairLists == UNION {[1..n -> Pairs] : n \in 1..MaxPairs}

\* the text  "k1": v1, "k2": v2, ...
RECURSIVE RenderPairs(_)
RenderPairs(pairs) ==
  IF pairs = <<>> THEN <<>>
  ELSE <<Q>> \o pairs[1].key \o <<Q, ":", " ">> \o pairs[1].val.raw
         \o (IF Len(pairs) = 1 THEN <<>> ELSE <<",", " ">> \o RenderPairs(Tail(pairs)))

\* the text  ["k1": v1, "k2": v2, ...]
RenderSpan(pairs) == <<"[">> \o RenderPairs(pairs) \o <<"]">>

InitSan ==
  /\ AppInit
  /\ normIn = Null
  /\ normOut = <<>>
  /\ \E pairs \in PairLists : sanIn = [text |-> RenderSpan(pairs), pairs |-> pairs]
  /\ sanOut = [done |-> FALSE, text |-> <<>>]

Sanitize ==
  /\ ~sanOut.done
  /\ sanOut' = [done |-> TRUE, text |-> trySanitizeText(sanIn.text)]
  /\ UNCHANGED <<appVars, normIn, normOut, sanIn>>

NextSan == Sanitize

SpecSan == InitSan /\ [][NextSan]_vars

----------------------------------------------------------------------------
(* trySanitizeText on its own, on strictly valid JSON: every object of two *)
(* string members and every array of two strings whose keys and contents   *)
(* are strings of up to MaxStrLen characters.                              *)

MaxStrLen == 1
StrChars == {"[", "]", ":", ",", "a"}

ValidStrings == UNION {[1..n -> StrChars] : n \in 0..MaxStrLen}

\* the text  {"k1":"v1","k2":"v2"}
RenderObject(k1, v1, k2, v2) ==
  <<"{", Q>> \o k1 \o <<Q, ":", Q>> \o v1 \o <<Q, ",", Q>> \o k2 \o <<Q, ":", Q>> \o v2 \o <<Q, "}">>

\* the text  ["s1","s2"]
RenderArray(s1, s2) == <<"[", Q>> \o s1 \o <<Q, ",", Q>> \o s2 \o <<Q, "]">>

InitValid ==
  /\ AppInit
  /\ normIn = Null
  /\ normOut = <<>>
  /\ \/ \E k1, v1, k2, v2 \in ValidStrings :
          sanIn = [text |-> RenderObject(k1, v1, k2, v2), pairs |-> <<>>]
     \/ \E s1, s2 \in ValidStrings :
          sanIn = [text |-> RenderArray(s1, s2), pairs |-> <<>>]
  /\ sanOut = [done |-> FALSE, text |-> <<>>]

NextValid == Sanitize

SpecValid == InitValid /\ [][NextValid]_vars

----------------------------------------------------------------------------
(* Claims about parsePathToNormalized (specification SpecNorm).            *)

IsBlank(q) == \A i \in 1..Len(q) : IsWs(q[i])

\* the trimmed query without one leading '$' and then one leading '.'
StrippedOnce(q) ==
  LET t == Trim(q)
      d == IF At(t, 1) = "$" THEN 1 ELSE 0
      e == IF At(t, d + 1) = "." THEN 1 ELSE 0
  IN SubSeq(t, d + e + 1, Len(t))

\* C9 as stated: the result is the trimmed query with at most one leading '$'
\* and then at most one leading '.' removed, and it is null for every empty or
\* white-space-only query.
C9_AsStated ==
  normOut # <<>> /\ ~normIn.isNull =>
    IF IsBlank(normIn.s) THEN normOut[1] = Null
    ELSE normOut[1] = Str(StrippedOnce(normIn.s))

\* C9 amended: the result is null only for the empty (or null) query; for every
\* other query, white-space-only ones included, it is the trimmed query with at
\* most one leading '$' and then at most one leading '.' removed, so a
\* white-space-only query gives the empty string.
C9_Normalized ==
  normOut # <<>> =>
    IF normIn.isNull \/ normIn.s = <<>> THEN normOut[1] = Null
    ELSE normOut[1] = Str(StrippedOnce(normIn.s))

\* a white-space-only query has been normalized to the empty string, and a
\* query with a doubled prefix has kept its second '$'
C9_Witness ==
  /\ normOut # <<>>
  /\ \/ normIn = Str(<<" ", " ">>) /\ normOut[1] = Str(<<>>)
     \/ normIn = Str(<<"$", "$", "a">>) /\ normOut[1] = Str(<<"$", "a">>)

HasCleanHead(r) == ~r.isNull /\ At(r.s, 1) \notin {"$", "."}

\* C10 as stated: a non-null result r with no leading '$' or '.' normalizes to
\* itself.
C10_AsStated ==
  Len(normOut) = 2 /\ HasCleanHead(normOut[1]) => normOut[2] = normOut[1]

\* C10 amended: a result r that is non-null, non-empty and starts with none of
\* '$', '.' and white space normalizes to itself.
C10_Idempotent ==
  Len(normOut) = 2 /\ HasCleanHead(normOut[1]) /\ normOut[1].s # <<>> /\ ~IsWs(normOut[1].s[1])
    => normOut[2] = normOut[1]

\* a result obtained by stripping "$." has been normalized again
C10_Witness ==
  /\ Len(normOut) = 2
  /\ normIn = Str(<<"$", ".", "a">>)
  /\ normOut[1] = Str(<<"a">>)

----------------------------------------------------------------------------
(* Claims about trySanitizeText (specification SpecSan).                   *)

Rewritten == sanOut.done /\ sanOut.text # sanIn.text

RECURSIVE MergePairs(_, _)
MergePairs(o, pairs) ==
  IF pairs = <<>> THEN o
  ELSE MergePairs(ObjPut(o, pairs[1].key, pairs[1].val.json), Tail(pairs))

----------------------------------------------------------------------------
(* Claims about the graph of a generation (specification Spec).            *)

GenerateOk == lastOp.op = "generate" /\ lastOp.ok
GenerateFailed == lastOp.op = "generate" /\ ~lastOp.ok

\* after a successful generate the editor holds a text that parses strictly
\* to the value the graph was built from
GeneratedValue == JSONParse(jsonText).val

\* the positions of the values inside value v, in preorder: a position is the
\* sequence of child indexes that leads from v to the value; <<>> is v itself
RECURSIVE Positions(_), PositionsFrom(_, _)
Positions(v) == <<<<>>>> \o PositionsFrom(v, 1)
PositionsFrom(v, i) ==
  IF i > ChildCount(v) THEN <<>>
  ELSE LET sub == Positions(ChildValue(v, i))
       IN [k \in 1..Len(sub) |-> <<i>> \o sub[k]] \o PositionsFrom(v, i + 1)

RECURSIVE ValueAt(_, _)
ValueAt(v, pos) == IF pos = <<>> THEN v ELSE ValueAt(ChildValue(v, pos[1]), Tail(pos))

Front(pos) == SubSeq(pos, 1, Len(pos) - 1)

IncomingEdges(n) == {e \in 1..Len(edges) : edges[e].target = nodes[n].id}

\* C1 as stated: one node per JSON value, the root included, nodeCount - 1
\* edges, and every non-root node has exactly one incoming edge, from the node
\* of its direct parent value.
C1_AsStated ==
  GenerateOk =>
    LET P == Positions(GeneratedValue) IN
    /\ Len(nodes) = Len(P)
    /\ Len(edges) = Len(nodes) - 1
    /\ \A i \in 1..Len(nodes) :
         /\ nodes[i].data.value = ValueAt(GeneratedValue, P[i])
         /\ P[i] # <<>> =>
              /\ Cardinality(IncomingEdges(i)) = 1
              /\ \E j \in 1..Len(nodes) :
                   /\ P[j] = Front(P[i])
                   /\ \A e \in IncomingEdges(i) : edges[e].source = nodes[j].id

\* C1 amended: one node per JSON value other than the root, which gets no
\* node; the nodes come in preorder with distinct ids; a value whose parent is
\* the root has no incoming edge, every deeper value has exactly one, from the
\* node of its direct parent value, which comes earlier in the list (so there
\* is no cycle); there are nodeCount - (number of children of the root) edges:
\* a forest with one tree per child of the root.
C1_Forest ==
  GenerateOk =>
    LET P == Tail(Positions(GeneratedValue)) IN
    /\ Len(nodes) = Len(P)
    /\ Len(edges) = Len(nodes) - ChildCount(GeneratedValue)
    /\ \A i, j \in 1..Len(nodes) : nodes[i].id = nodes[j].id => i = j
    /\ \A e \in 1..Len(edges) : \E i \in 1..Len(nodes) : edges[e].target = nodes[i].id
    /\ \A i \in 1..Len(nodes) :
         /\ nodes[i].data.value = ValueAt(GeneratedValue, P[i])
         /\ IF Len(P[i]) = 1 THEN IncomingEdges(i) = {}
            ELSE /\ Cardinality(IncomingEdges(i)) = 1
                 /\ \E j \in 1..(i - 1) :
                      /\ P[j] = Front(P[i])
                      /\ \A e \in IncomingEdges(i) : edges[e].source = nodes[j].id

\* a generated graph with two top-level values and a value two levels down
C1_Witness ==
  /\ GenerateOk
  /\ ChildCount(GeneratedValue) >= 2
  /\ Len(edges) >= 2
  /\ Len(nodes) > Len(edges) + 1

\* C2: within one generation no two nodes have the same path string, also
\* when keys contain '.', '[' or ']'.
C2_UniquePaths ==
  \A i, j \in 1..Len(nodes) : nodes[i].data.path = nodes[j].data.path => i = j

----------------------------------------------------------------------------
(* Claims about parseWithRecovery and handleGenerate (specification Spec). *)

\* C4: a generate fails only when the strict parse of its text fails and the
\* sanitizer leaves the text unchanged or the sanitized text fails to parse
\* too; the message shown is built from the error of the strict parse of the
\* original text, never from the error of the repaired text.
C4_OriginalError ==
  GenerateFailed =>
    LET text == lastOp.input
        candidate == trySanitizeText(text)
    IN /\ ~JSONParse(text).ok
       /\ candidate = text \/ ~JSONParse(candidate).ok
       /\ error.msg = "Invalid JSON: "
       /\ error.cause = [name |-> "SyntaxError", input |-> text]

\* a generate has failed on a text that the sanitizer rewrote
C4_Witness ==
  /\ GenerateFailed
  /\ trySanitizeText(lastOp.input) # lastOp.input
  /\ error.cause.input = lastOp.input

Highlighted(n) == n.style.border = "2px solid #ff9800"
HighlightedNodes == {i \in 1..Len(nodes) : Highlighted(nodes[i])}

\* C5: a generate that fails leaves the nodes, highlight included, the edges
\* and the input text as they were; of what is displayed only the error
\* message changes.
C5_FailedGenerateFrame ==
  [][lastOp'.op = "generate" /\ ~lastOp'.ok =>
       /\ nodes' = nodes
       /\ edges' = edges
       /\ jsonText' = jsonText
       /\ searchMessage' = searchMessage]_vars

\* a generate has failed while a graph with a highlighted node is displayed
C5_Witness ==
  /\ GenerateFailed
  /\ Len(nodes) >= 2
  /\ edges # <<>>
  /\ HighlightedNodes # {}
  /\ error.msg = "Invalid JSON: "

----------------------------------------------------------------------------
(* Claims about handleSearch (specification Spec).                         *)

\* the nodes that satisfy the search condition for suffix s
Satisfying(s) ==
  {i \in 1..Len(nodes) : \/ EndsWith(nodes[i].data.path, s)
                         \/ nodes[i].data.path = <<"$", ".">> \o s}

Structure(ns) == [i \in 1..Len(ns) |-> [id |-> ns[i].id, data |-> ns[i].data, position |-> ns[i].position]]

\* the nodes of the graph generated from a text, the style left out
GraphOf(text) == Structure(BuildGraph(JSONParse(text).val).nodes)

SearchedSuffix == parsePathToNormalized(Str(lastOp.input))
Searched == lastOp.op = "search" /\ Truthy(SearchedSuffix)

\* C6: a search with a non-empty suffix s finds the FIRST node in stored order
\* whose path ends with s or equals "$." + s, and reports not-found exactly
\* when no node satisfies either condition.
C6_FirstMatch ==
  Searched =>
    LET M == Satisfying(SearchedSuffix.s) IN
    IF M = {} THEN searchMessage = "No match found" /\ ~lastOp.ok
    ELSE /\ searchMessage = "Match found"
         /\ lastOp.ok
         /\ \E m \in M : /\ \A k \in M : m <= k
                         /\ HighlightedNodes = {m}
         /\ lastOp.input = QueryCity /\ Structure(nodes) = GraphOf(TextCity)
              => \A m \in HighlightedNodes : nodes[m].data.path = <<"$", ".">> \o QueryCity

\* a query satisfied by several nodes has matched
C6_Witness ==
  /\ Searched
  /\ lastOp.ok
  /\ Cardinality(Satisfying(SearchedSuffix.s)) >= 2
  /\ HighlightedNodes # {}

\* C7: a search keeps the nodes, their order and each node's id, path, value,
\* kind, label and position, and the edge list; a search without a match
\* changes nothing in the nodes and edges and only reports not-found.
C7_SearchFrame ==
  [][lastOp'.op = "search" =>
       /\ Structure(nodes') = Structure(nodes)
       /\ edges' = edges
       /\ ~lastOp'.ok => nodes' = nodes
       /\ ~lastOp'.ok /\ Truthy(parsePathToNormalized(Str(lastOp'.input)))
            => searchMessage' = "No match found"]_vars

\* a search has matched in a graph of several nodes and edges
C7_Witness ==
  /\ lastOp.op = "search"
  /\ lastOp.ok
  /\ Len(nodes) >= 3
  /\ edges # <<>>
  /\ HighlightedNodes # {}

\* C8: after a search that matches exactly one node is highlighted, the matched
\* one; at most one node is highlighted at any time, and none right after a
\* successful generate.
C8_OneHighlight ==
  /\ Cardinality(HighlightedNodes) <= 1
  /\ GenerateOk => HighlightedNodes = {}
  /\ lastOp.op = "search" /\ lastOp.ok =>
       /\ Cardinality(HighlightedNodes) = 1
       /\ \A i \in HighlightedNodes :
            /\ i \in Satisfying(SearchedSuffix.s)
            /\ \A k \in Satisfying(SearchedSuffix.s) : i <= k

\* a search has highlighted a node that is not the first of the list
C8_Witness ==
  /\ lastOp.op = "search"
  /\ lastOp.ok
  /\ \E i \in HighlightedNodes : i > 1

----------------------------------------------------------------------------
(* Claims about trySanitizeText on valid JSON (specification SpecValid).   *)

\* C11: trySanitizeText(text) = text for every strictly valid JSON text, also
\* when its keys or string contents hold '[', ']', ':' or ','.
C11_ValidUnchanged ==
  (sanOut.done /\ JSONParse(sanIn.text).ok) => sanOut.text = sanIn.text

----------------------------------------------------------------------------
(* Claims about labels and layout (specification Spec).                    *)

\* the positions of the values that have a node, in the order of the nodes
NodePositions == Tail(Positions(GeneratedValue))

\* the value holding the value at position pos
ParentValue(pos) == ValueAt(GeneratedValue, Front(pos))

\* the key of an object member, the index alone of an array element
OwnSegment(pos) ==
  IF ParentValue(pos).type = "object" THEN ParentValue(pos).keys[pos[Len(pos)]]
  ELSE NatToString(pos[Len(pos)] - 1)

\* C12: the label of a primitive node is "<last segment>: <textual value>" and
\* the label of an object or array node is its last segment, the last segment
\* being the key of an object member and the index alone of an array element.
C12_Labels ==
  GenerateOk =>
    \A i \in 1..Len(nodes) :
      nodes[i].data.label =
        IF nodes[i].data.type = "primitive"
        THEN OwnSegment(NodePositions[i]) \o <<":", " ">> \o nodes[i].data.value.text
        ELSE OwnSegment(NodePositions[i])

\* the y handed down to the value at position pos: 0 for the root, and 120
\* more per earlier sibling than the y of the parent
RECURSIVE YOf(_)
YOf(pos) == IF pos = <<>> THEN 0 ELSE YOf(Front(pos)) + 120 * (pos[Len(pos)] - 1)

\* C13 as stated: x = depth * 220 with the root at depth 0 and its direct
\* children at depth 1 (x = 220); y = 0 for the root and Y + 120 * k for the
\* k-th child (k = 0, 1, ...) of a parent at y = Y.
C13_AsStated ==
  GenerateOk =>
    \A i \in 1..Len(nodes) :
      nodes[i].position = [x |-> 220 * Len(NodePositions[i]), y |-> YOf(NodePositions[i])]

\* C13 amended: the direct children of the root are laid out at the depth of
\* the root, x = 0, and x grows by 220 per level below them; y = 0 for the
\* root and Y + 120 * k for the k-th child (k = 0, 1, ...) of a parent at y = Y.
C13_Layout ==
  GenerateOk =>
    \A i \in 1..Len(nodes) :
      nodes[i].position =
        [x |-> 220 * (Len(NodePositions[i]) - 1), y |-> YOf(NodePositions[i])]

\* a generated graph with a second child of the root at (0, 120) and the second
\* child of that child at (220, 240)
C13_Witness ==
  /\ GenerateOk
  /\ \E i, j \in 1..Len(nodes) :
       /\ NodePositions[i] = <<2>>
       /\ nodes[i].position = [x |-> 0, y |-> 120]
       /\ NodePositions[j] = <<2, 2>>
       /\ nodes[j].position = [x |-> 220, y |-> 240]

----------------------------------------------------------------------------
(* Claims about repeated generation (specification Spec).                  *)

\* the graph of value v as the first call of traverseToNodes after loading
\* builds it, idCounter being 1
FreshGraph(v) ==
  traverseToNodes(v, <<"$">>, 0, 0, 0, [idCounter |-> 1, nodes |-> <<>>, edges |-> <<>>], Null)

\* what a successful generate stores is the fresh graph of the generated value
StoredIsFresh ==
  GenerateOk =>
    /\ nodes = FreshGraph(GeneratedValue).nodes
    /\ edges = FreshGraph(GeneratedValue).edges
    /\ idCounter = FreshGraph(GeneratedValue).idCounter
    /\ HighlightedNodes = {}
    /\ \A i \in 1..Len(nodes) : nodes[i].id = genId(i + 1).s

\* a generate right after a generate that succeeded by repair
RegenerateStep ==
  /\ GenerateOk
  /\ error = SanitizedMessage
  /\ lastOp'.op = "generate"

\* C14: after any sequence of generates and searches, a successful generate
\* stores the nodes and edges that a first generate of the same text stores,
\* with the same ids, paths, labels and positions and no highlight, the id
\* counter starting at 1 on every generate; and a generate right after one that
\* succeeded by repair stores the same graph again, keeps the repaired text and
\* reports no sanitization.
C14_Deterministic ==
  /\ [](StoredIsFresh /\ (GenerateFailed => idCounter = 1))
  /\ [][RegenerateStep =>
          /\ lastOp'.ok
          /\ lastOp'.input = jsonText
          /\ nodes' = nodes
          /\ edges' = edges
          /\ jsonText' = jsonText
          /\ error' = NoMessage]_vars

\* a repaired text, which is none of the texts typed, has been generated again
C14_Witness ==
  /\ GenerateOk
  /\ lastOp.input \notin Texts
  /\ error = NoMessage
  /\ Len(nodes) >= 2

====
